---- MODULE Spec2Model ----
(***************************************************************************)
(* bodywork.cli.secrets: the KEY=VALUE parser and the five secret          *)
(* lifecycle operations (create, update, delete, display) that run against *)
(* the k8s secret store.                                                   *)
(*                                                                         *)
(* A Python str is a sequence of one-character strings, so that find,      *)
(* slicing, f-string composition and replace are computed character by     *)
(* character.  A Python dict is a sequence of <<key, value>> pairs with    *)
(* unique keys, kept in insertion order.                                   *)
(***************************************************************************)
EXTENDS Integers, Sequences, FiniteSets, TLC

VARIABLES
    store,      \* the cluster: the existing namespaces and their secrets
    op,         \* the last operation called, with its arguments
    pre,        \* the store as it was when that operation was called
    trace,      \* what that operation did: its store calls and prints, in order
    result,     \* how that operation ended: returned, or raised an error
    prev,       \* the command before this one, when it changed the cluster
    found,      \* the store as the mutating call of update_secret or
                \* delete_secret found it, when the command ran step by step
    kv_call,    \* the last parser function called, with its argument
    kv_result   \* what that parser call returned or raised

vars == <<store, op, pre, trace, result, prev, found, kv_call, kv_result>>
storeVars == <<store, op, pre, trace, result, prev, found>>
parseVars == <<kv_call, kv_result>>

----------------------------------------------------------------------------
(* Python values *)

\* Python's None (the default of display_secrets' group and secret_name): a
\* value that is no character sequence any str can equal.
None == <<"None">>

\* str(x) as an f-string field renders it: None prints as the text None.
Format(x) == IF x = None THEN <<"N", "o", "n", "e">> ELSE x

\* bool(x) of an Optional[str]: None and the empty string are falsy.
Truthy(x) == x # None /\ Len(x) > 0

\* s.replace(old, "") for a one-character old.
Replace(s, old) == SelectSeq(s, LAMBDA c : c # old)

\* dict: keys(), "k in d", d[k], d[k] = v (a new key is appended, an existing
\* key keeps its position and takes the new value).
DictKeys(d) == {d[i][1] : i \in 1..Len(d)}
DictHas(d, k) == k \in DictKeys(d)
DictGet(d, k) == d[CHOOSE i \in 1..Len(d) : d[i][1] = k][2]
\* dict.setdefault in place of assignment: an existing key keeps its value.
DictSet_keep_first(d, k, v) ==
    IF DictHas(d, k) THEN d ELSE Append(d, <<k, v>>)

DictSet(d, k, v) ==
    IF DictHas(d, k)
    THEN [i \in 1..Len(d) |-> IF d[i][1] = k THEN <<k, v>> ELSE d[i]]
    ELSE Append(d, <<k, v>>)

NoError == [type |-> "none", from |-> "none"]
ValueError == [type |-> "ValueError",
               from |-> "secret key-value pair not in KEY=VALUE format"]
KeyError == [type |-> "KeyError", from |-> "secrets[name]"]
StoreError(fn) == [type |-> "StoreError", from |-> fn]

----------------------------------------------------------------------------
(* _parse_secret_key_value_pair and parse_cli_secrets_strings *)

MaxStrLen == 3
MaxPairs == 2

Alphabet == {"a", "b", "="}
RawStrings == UNION {[1..n -> Alphabet] : n \in 0..MaxStrLen}

\* str.rfind(c) in place of str.find(c): the highest index of c in s.
Find_last(s, c) ==
    IF \E i \in 1..Len(s) : s[i] = c
    THEN (CHOOSE i \in 1..Len(s) : s[i] = c /\ \A j \in (i + 1)..Len(s) : s[j] # c) - 1
    ELSE -1

\* str.find(c): the lowest 0-based index of c in s, -1 when there is none.
Find(s, c) ==
    IF \E i \in 1..Len(s) : s[i] = c
    THEN (CHOOSE i \in 1..Len(s) : s[i] = c /\ \A j \in 1..(i - 1) : s[j] # c) - 1
    ELSE -1

Raised(error) == [raised |-> TRUE, error |-> error, key |-> <<>>, value |-> <<>>]
Parsed(key, value) == [raised |-> FALSE, error |-> NoError, key |-> key, value |-> value]

_parse_secret_key_value_pair(kv_string) ==
    LET equals_sign == Find(kv_string, "=")
        key == SubSeq(kv_string, 1, equals_sign)
        value == SubSeq(kv_string, equals_sign + 2, Len(kv_string))
    IN  IF equals_sign = -1 THEN Raised(ValueError)
        ELSE IF Len(key) = 0 THEN Raised(ValueError)
        ELSE IF Len(value) = 0 THEN Raised(ValueError)
        ELSE Parsed(key, value)

\* The generator with the malformed strings skipped instead of raised on.
RECURSIVE DictFromPairs_skipping(_, _, _)
DictFromPairs_skipping(strings, n, acc) ==
    IF n = Len(strings)
    THEN [raised |-> FALSE, error |-> NoError, value |-> acc, consumed |-> n]
    ELSE LET p == _parse_secret_key_value_pair(strings[n + 1])
         IN  IF p.raised
             THEN DictFromPairs_skipping(strings, n + 1, acc)
             ELSE DictFromPairs_skipping(strings, n + 1, DictSet(acc, p.key, p.value))

\* dict(<generator>): the pairs are parsed one by one, each inserted as it is
\* produced; the first ValueError ends the call.  The result records the dict
\* (when returned), the error (when raised) and how many strings were parsed.
RECURSIVE DictFromPairs(_, _, _)
DictFromPairs(strings, n, acc) ==
    IF n = Len(strings)
    THEN [raised |-> FALSE, error |-> NoError, value |-> acc, consumed |-> n]
    ELSE LET p == _parse_secret_key_value_pair(strings[n + 1])
         IN  IF p.raised
             THEN [raised |-> TRUE, error |-> p.error, value |-> <<>>, consumed |-> n + 1]
             ELSE DictFromPairs(strings, n + 1, DictSet(acc, p.key, p.value))

parse_cli_secrets_strings(strings) == DictFromPairs(strings, 0, <<>>)

----------------------------------------------------------------------------
(* The k8s secret store, as bodywork.k8s exposes it to this module *)

Namespaces == {"ns1", "ns2"}

\* Every call takes the store and returns its answer and the store after it.
\* fault names the store call that fails in the current operation, whatever
\* the cluster holds (a transport failure, a permission denial); "none": the
\* store answers every call.
Answers(st, value) == [raised |-> FALSE, error |-> NoError, value |-> value, store |-> st]
Fails(st, fn) == [raised |-> TRUE, error |-> StoreError(fn), value |-> FALSE, store |-> st]

k8s_namespace_exists(st, fault, namespace) ==
    IF fault = "namespace_exists" THEN Fails(st, "namespace_exists")
    ELSE Answers(st, namespace \in st.namespaces)

k8s_secret_exists(st, fault, namespace, name) ==
    IF fault = "secret_exists" THEN Fails(st, "secret_exists")
    ELSE Answers(st, <<namespace, name>> \in DOMAIN st.secrets)

\* Creation is rejected when the identifier is already taken in the namespace.
k8s_create_secret(st, fault, namespace, name, group, data) ==
    IF fault = "create_secret" \/ namespace \notin st.namespaces
       \/ <<namespace, name>> \in DOMAIN st.secrets
    THEN Fails(st, "create_secret")
    ELSE Answers([st EXCEPT !.secrets =
                     (<<namespace, name>> :> [group |-> group, data |-> data]) @@ @],
                 TRUE)

k8s_update_secret(st, fault, namespace, name, data) ==
    IF fault = "update_secret" \/ <<namespace, name>> \notin DOMAIN st.secrets
    THEN Fails(st, "update_secret")
    ELSE Answers([st EXCEPT !.secrets[<<namespace, name>>].data = data], TRUE)

k8s_delete_secret(st, fault, namespace, name) ==
    IF fault = "delete_secret" \/ <<namespace, name>> \notin DOMAIN st.secrets
    THEN Fails(st, "delete_secret")
    ELSE Answers([st EXCEPT !.secrets =
                     [k \in DOMAIN @ \ {<<namespace, name>>} |-> @[k]]],
                 TRUE)

\* The listing is a dict from identifier to record; the store fixes its order.
RECURSIVE Listing(_, _)
Listing(secrets, keys) ==
    IF keys = {} THEN <<>>
    ELSE LET k == CHOOSE x \in keys : TRUE
         IN  <<<<k[2], secrets[k]>>>> \o Listing(secrets, keys \ {k})

k8s_list_secrets(st, fault, namespace, group) ==
    IF fault = "list_secrets" THEN Fails(st, "list_secrets")
    ELSE Answers(st, Listing(st.secrets,
                     {k \in DOMAIN st.secrets :
                         /\ k[1] = namespace
                         /\ (group = None \/ st.secrets[k].group = group)}))

----------------------------------------------------------------------------
(* The operations of bodywork.cli.secrets *)

\* The two fields of the identifier the other way round.
_create_complete_secret_name_reversed(group, name) ==
    Format(name) \o <<"-">> \o Format(group)

_create_complete_secret_name(group, name) ==
    Format(group) \o <<"-">> \o Format(name)

\* A store call with the error it raised (NoError when it answered), and a print.
CallEv(fn, args, r) == [ev |-> "call", what |-> fn, args |-> args, error |-> r.error]
PrintEv(msg, args) == [ev |-> "print", what |-> msg, args |-> args]

Return(st, tr) == [store |-> st, trace |-> tr,
                   result |-> [status |-> "returned", error |-> NoError]]
Raise(st, tr, error) == [store |-> st, trace |-> tr,
                         result |-> [status |-> "raised", error |-> error]]

\* create_secret without its namespace check.
create_secret_unchecked(st, fault, namespace, group, secret_name, keys_and_values) ==
    LET name == _create_complete_secret_name(group, secret_name)
        r2 == k8s_create_secret(st, fault, namespace, name, group, keys_and_values)
        c2 == CallEv("create_secret", <<namespace, name, group, keys_and_values>>, r2)
    IN  IF r2.raised THEN Raise(r2.store, <<c2>>, r2.error)
        ELSE Return(r2.store, <<c2, PrintEv("created", <<secret_name, group>>)>>)

\* create_secret with the store call wrapped in a try/except that reports and
\* carries on.
create_secret_swallowing(st, fault, namespace, group, secret_name, keys_and_values) ==
    LET name == _create_complete_secret_name(group, secret_name)
        r1 == k8s_namespace_exists(st, fault, namespace)
        c1 == CallEv("namespace_exists", <<namespace>>, r1)
        r2 == k8s_create_secret(st, fault, namespace, name, group, keys_and_values)
        c2 == CallEv("create_secret", <<namespace, name, group, keys_and_values>>, r2)
    IN  IF r1.raised THEN Raise(st, <<c1>>, r1.error)
        ELSE IF ~r1.value
        THEN Return(st, <<c1, PrintEv("namespace_not_found", <<namespace>>)>>)
        ELSE Return(r2.store,
                    <<c1, c2, PrintEv("created", <<secret_name, group>>)>>)

create_secret(st, fault, namespace, group, secret_name, keys_and_values) ==
    LET name == _create_complete_secret_name(group, secret_name)
        r1 == k8s_namespace_exists(st, fault, namespace)
        c1 == CallEv("namespace_exists", <<namespace>>, r1)
        r2 == k8s_create_secret(st, fault, namespace, name, group, keys_and_values)
        c2 == CallEv("create_secret", <<namespace, name, group, keys_and_values>>, r2)
    IN  IF r1.raised THEN Raise(st, <<c1>>, r1.error)
        ELSE IF ~r1.value
        THEN Return(st, <<c1, PrintEv("namespace_not_found", <<namespace>>)>>)
        ELSE IF r2.raised THEN Raise(r2.store, <<c1, c2>>, r2.error)
        ELSE Return(r2.store,
                    <<c1, c2, PrintEv("created", <<secret_name, group>>)>>)

\* update_secret without its secret_exists check.
update_secret_unchecked(st, fault, namespace, group, secret_name, keys_and_values) ==
    LET name == _create_complete_secret_name(group, secret_name)
        r1 == k8s_namespace_exists(st, fault, namespace)
        c1 == CallEv("namespace_exists", <<namespace>>, r1)
        r3 == k8s_update_secret(st, fault, namespace, name, keys_and_values)
        c3 == CallEv("update_secret", <<namespace, name, keys_and_values>>, r3)
    IN  IF r1.raised THEN Raise(st, <<c1>>, r1.error)
        ELSE IF ~r1.value
        THEN Return(st, <<c1, PrintEv("namespace_not_found", <<namespace>>)>>)
        ELSE IF r3.raised THEN Raise(r3.store, <<c1, c3>>, r3.error)
        ELSE Return(r3.store,
                    <<c1, c3, PrintEv("updated", <<secret_name, group>>)>>)

update_secret(st, fault, namespace, group, secret_name, keys_and_values) ==
    LET name == _create_complete_secret_name(group, secret_name)
        r1 == k8s_namespace_exists(st, fault, namespace)
        c1 == CallEv("namespace_exists", <<namespace>>, r1)
        r2 == k8s_secret_exists(st, fault, namespace, name)
        c2 == CallEv("secret_exists", <<namespace, name>>, r2)
        r3 == k8s_update_secret(st, fault, namespace, name, keys_and_values)
        c3 == CallEv("update_secret", <<namespace, name, keys_and_values>>, r3)
    IN  IF r1.raised THEN Raise(st, <<c1>>, r1.error)
        ELSE IF ~r1.value
        THEN Return(st, <<c1, PrintEv("namespace_not_found", <<namespace>>)>>)
        ELSE IF r2.raised THEN Raise(st, <<c1, c2>>, r2.error)
        ELSE IF ~r2.value
        THEN Return(st, <<c1, c2, PrintEv("secret_not_found", <<secret_name, group>>)>>)
        ELSE IF r3.raised THEN Raise(r3.store, <<c1, c2, c3>>, r3.error)
        ELSE Return(r3.store,
                    <<c1, c2, c3, PrintEv("updated", <<secret_name, group>>)>>)

\* delete_secret with its two checks the other way round.
delete_secret_swapped(st, fault, namespace, group, secret_name) ==
    LET name == _create_complete_secret_name(group, secret_name)
        r2 == k8s_secret_exists(st, fault, namespace, name)
        c2 == CallEv("secret_exists", <<namespace, name>>, r2)
        r1 == k8s_namespace_exists(st, fault, namespace)
        c1 == CallEv("namespace_exists", <<namespace>>, r1)
        r3 == k8s_delete_secret(st, fault, namespace, name)
        c3 == CallEv("delete_secret", <<namespace, name>>, r3)
    IN  IF r2.raised THEN Raise(st, <<c2>>, r2.error)
        ELSE IF ~r2.value
        THEN Return(st, <<c2, PrintEv("secret_not_found", <<secret_name, group>>)>>)
        ELSE IF r1.raised THEN Raise(st, <<c2, c1>>, r1.error)
        ELSE IF ~r1.value
        THEN Return(st, <<c2, c1, PrintEv("namespace_not_found", <<namespace>>)>>)
        ELSE IF r3.raised THEN Raise(r3.store, <<c2, c1, c3>>, r3.error)
        ELSE Return(r3.store,
                    <<c2, c1, c3,
                      PrintEv("deleted", <<secret_name, group, namespace>>)>>)

\* delete_secret without its secret_exists check, as if the secret were
\* known to exist.
delete_secret_unchecked(st, fault, namespace, group, secret_name) ==
    LET name == _create_complete_secret_name(group, secret_name)
        r1 == k8s_namespace_exists(st, fault, namespace)
        c1 == CallEv("namespace_exists", <<namespace>>, r1)
        r3 == k8s_delete_secret(st, fault, namespace, name)
        c3 == CallEv("delete_secret", <<namespace, name>>, r3)
    IN  IF r1.raised THEN Raise(st, <<c1>>, r1.error)
        ELSE IF ~r1.value
        THEN Return(st, <<c1, PrintEv("namespace_not_found", <<namespace>>)>>)
        ELSE IF r3.raised THEN Raise(r3.store, <<c1, c3>>, r3.error)
        ELSE Return(r3.store,
                    <<c1, c3, PrintEv("deleted", <<secret_name, group, namespace>>)>>)

delete_secret(st, fault, namespace, group, secret_name) ==
    LET name == _create_complete_secret_name(group, secret_name)
        r1 == k8s_namespace_exists(st, fault, namespace)
        c1 == CallEv("namespace_exists", <<namespace>>, r1)
        r2 == k8s_secret_exists(st, fault, namespace, name)
        c2 == CallEv("secret_exists", <<namespace, name>>, r2)
        r3 == k8s_delete_secret(st, fault, namespace, name)
        c3 == CallEv("delete_secret", <<namespace, name>>, r3)
    IN  IF r1.raised THEN Raise(st, <<c1>>, r1.error)
        ELSE IF ~r1.value
        THEN Return(st, <<c1, PrintEv("namespace_not_found", <<namespace>>)>>)
        ELSE IF r2.raised THEN Raise(st, <<c1, c2>>, r2.error)
        ELSE IF ~r2.value
        THEN Return(st, <<c1, c2, PrintEv("secret_not_found", <<secret_name, group>>)>>)
        ELSE IF r3.raised THEN Raise(r3.store, <<c1, c2, c3>>, r3.error)
        ELSE Return(r3.store,
                    <<c1, c2, c3,
                      PrintEv("deleted", <<secret_name, group, namespace>>)>>)

\* update_secret and delete_secret in two steps, as another actor on the
\* cluster may see them: the two queries (lines 92-99, 113-120), after which
\* the command either has ended or goes on with `tr` behind it, and the
\* mutating call with the message that follows it (lines 100-103, 121-122).
Proceed(st, tr) == [store |-> st, trace |-> tr,
                    result |-> [status |-> "none", error |-> NoError]]

update_secret_check(st, fault, namespace, group, secret_name) ==
    LET name == _create_complete_secret_name(group, secret_name)
        r1 == k8s_namespace_exists(st, fault, namespace)
        c1 == CallEv("namespace_exists", <<namespace>>, r1)
        r2 == k8s_secret_exists(st, fault, namespace, name)
        c2 == CallEv("secret_exists", <<namespace, name>>, r2)
    IN  IF r1.raised THEN Raise(st, <<c1>>, r1.error)
        ELSE IF ~r1.value
        THEN Return(st, <<c1, PrintEv("namespace_not_found", <<namespace>>)>>)
        ELSE IF r2.raised THEN Raise(st, <<c1, c2>>, r2.error)
        ELSE IF ~r2.value
        THEN Return(st, <<c1, c2, PrintEv("secret_not_found", <<secret_name, group>>)>>)
        ELSE Proceed(st, <<c1, c2>>)

\* The second step asking the store once more before it calls.
update_secret_act_rechecking(st, fault, tr, namespace, group, secret_name, keys_and_values) ==
    LET name == _create_complete_secret_name(group, secret_name)
        r3 == k8s_update_secret(st, fault, namespace, name, keys_and_values)
        c3 == CallEv("update_secret", <<namespace, name, keys_and_values>>, r3)
    IN  IF <<namespace, name>> \notin DOMAIN st.secrets
        THEN Return(st, Append(tr, PrintEv("secret_not_found", <<secret_name, group>>)))
        ELSE IF r3.raised THEN Raise(r3.store, Append(tr, c3), r3.error)
        ELSE Return(r3.store,
                    tr \o <<c3, PrintEv("updated", <<secret_name, group>>)>>)

update_secret_act(st, fault, tr, namespace, group, secret_name, keys_and_values) ==
    LET name == _create_complete_secret_name(group, secret_name)
        r3 == k8s_update_secret(st, fault, namespace, name, keys_and_values)
        c3 == CallEv("update_secret", <<namespace, name, keys_and_values>>, r3)
    IN  IF r3.raised THEN Raise(r3.store, Append(tr, c3), r3.error)
        ELSE Return(r3.store,
                    tr \o <<c3, PrintEv("updated", <<secret_name, group>>)>>)

delete_secret_check(st, fault, namespace, group, secret_name) ==
    LET name == _create_complete_secret_name(group, secret_name)
        r1 == k8s_namespace_exists(st, fault, namespace)
        c1 == CallEv("namespace_exists", <<namespace>>, r1)
        r2 == k8s_secret_exists(st, fault, namespace, name)
        c2 == CallEv("secret_exists", <<namespace, name>>, r2)
    IN  IF r1.raised THEN Raise(st, <<c1>>, r1.error)
        ELSE IF ~r1.value
        THEN Return(st, <<c1, PrintEv("namespace_not_found", <<namespace>>)>>)
        ELSE IF r2.raised THEN Raise(st, <<c1, c2>>, r2.error)
        ELSE IF ~r2.value
        THEN Return(st, <<c1, c2, PrintEv("secret_not_found", <<secret_name, group>>)>>)
        ELSE Proceed(st, <<c1, c2>>)

delete_secret_act(st, fault, tr, namespace, group, secret_name) ==
    LET name == _create_complete_secret_name(group, secret_name)
        r3 == k8s_delete_secret(st, fault, namespace, name)
        c3 == CallEv("delete_secret", <<namespace, name>>, r3)
    IN  IF r3.raised THEN Raise(r3.store, Append(tr, c3), r3.error)
        ELSE Return(r3.store,
                    tr \o <<c3, PrintEv("deleted", <<secret_name, group, namespace>>)>>)

\* The line printed as formatted, without the replace.
KeyValueLine_raw(key, value) ==
    <<"-", ">", " ">> \o key \o <<"=">> \o value

\* print(f"-> {key}={value}".replace("\n", "")) for every item of a secret's data.
KeyValueLine(key, value) ==
    Replace(<<"-", ">", " ">> \o key \o <<"=">> \o value, "\n")
PrintData(data) ==
    [i \in 1..Len(data) |-> PrintEv("key_value", <<KeyValueLine(data[i][1], data[i][2])>>)]

\* for key, value in secrets.items(): the header, then the secret's data.
RECURSIVE PrintAll(_, _)
PrintAll(secrets, n) ==
    IF n = Len(secrets) THEN <<>>
    ELSE <<PrintEv("header", <<secrets[n + 1][1]>>)>>
         \o PrintData(secrets[n + 1][2].data)
         \o PrintAll(secrets, n + 1)

\* Every secret of the listing printed, not the requested one alone.
PrintOne_whole_listing(st, tr, secrets, namespace, name, secret_name) ==
    IF DictHas(secrets, name)
    THEN Return(st, tr \o PrintAll(secrets, 0))
    ELSE Return(st, Append(tr, PrintEv("cannot_find_secret", <<secret_name, namespace>>)))

\* The lookup by the short name instead of the composed identifier.
PrintOne_by_short_name(st, tr, secrets, namespace, name, secret_name) ==
    IF DictHas(secrets, secret_name)
    THEN Return(st, tr \o PrintData(DictGet(secrets, secret_name).data))
    ELSE Return(st, Append(tr, PrintEv("cannot_find_secret", <<secret_name, namespace>>)))

\* The lookup without the except KeyError clause.
PrintOne_uncaught(st, tr, secrets, namespace, name, secret_name) ==
    IF DictHas(secrets, name)
    THEN Return(st, tr \o PrintData(DictGet(secrets, name).data))
    ELSE Raise(st, tr, KeyError)

\* secrets[name].data.items() inside try/except KeyError.
PrintOne(st, tr, secrets, namespace, name, secret_name) ==
    IF DictHas(secrets, name)
    THEN Return(st, tr \o PrintData(DictGet(secrets, name).data))
    ELSE Return(st, Append(tr, PrintEv("cannot_find_secret", <<secret_name, namespace>>)))

display_secrets(st, fault, namespace, group, secret_name) ==
    LET r1 == k8s_namespace_exists(st, fault, namespace)
        c1 == CallEv("namespace_exists", <<namespace>>, r1)
        r2 == k8s_list_secrets(st, fault, namespace, group)
        c2 == CallEv("list_secrets", <<namespace, group>>, r2)
        secrets == r2.value
    IN  IF r1.raised THEN Raise(st, <<c1>>, r1.error)
        ELSE IF ~r1.value
        THEN Return(st, <<c1, PrintEv("namespace_not_found", <<namespace>>)>>)
        ELSE IF Truthy(secret_name) /\ group = None
        THEN Return(st, <<c1, PrintEv("specify_group", <<>>)>>)
        ELSE IF r2.raised THEN Raise(st, <<c1, c2>>, r2.error)
        ELSE IF secret_name # None
        THEN PrintOne(st, <<c1, c2, PrintEv("header", <<secret_name>>)>>, secrets,
                      namespace, _create_complete_secret_name(group, secret_name),
                      secret_name)
        ELSE Return(st, <<c1, c2>> \o PrintAll(secrets, 0))

----------------------------------------------------------------------------
(* The arguments the operations are called with *)

Groups == {<<"g">>, <<"g", "-", "h">>}
SecretNames == {<<>>, <<"n">>, <<"h", "-", "n">>}

\* KEY=VALUE strings as given on the command line: a value holding a newline,
\* a key holding a newline, a value that is an equals sign.
CliSecrets == {<< <<"K", "=", "V">> >>,
               << <<"K", "=", "V", "\n", "W">>, <<"L", "\n", "=", "=">> >>}
KeysAndValues == {parse_cli_secrets_strings(s).value : s \in CliSecrets}

----------------------------------------------------------------------------
(* The secrets state machine: one command at a time, any operation with any *)
(* arguments, against the cluster as the commands before it left it        *)

NoCall == [fn |-> "none", arg |-> <<>>]
NoOp == [fn |-> "none", namespace |-> "none", group |-> None,
         secret_name |-> None, keys_and_values |-> <<>>]
NoResult == [status |-> "none", error |-> NoError]
EmptyStore(namespaces) == [namespaces |-> namespaces, secrets |-> <<>>]

Init ==
    /\ store \in {EmptyStore({}), EmptyStore({"ns1"})}
    /\ op = NoOp
    /\ pre = store
    /\ trace = <<>>
    /\ result = NoResult
    /\ prev = NoOp
    /\ found = EmptyStore({})
    /\ kv_call = NoCall
    /\ kv_result = NoResult

Ends(call, r) ==
    /\ op = NoOp
    /\ op' = call
    /\ pre' = store
    /\ store' = r.store
    /\ trace' = r.trace
    /\ result' = r.result
    /\ UNCHANGED <<prev, found, parseVars>>

Create ==
    \E fault \in {"none", "namespace_exists", "create_secret"},
       namespace \in Namespaces, group \in Groups,
       secret_name \in SecretNames, keys_and_values \in KeysAndValues :
        Ends([fn |-> "create_secret", namespace |-> namespace, group |-> group,
              secret_name |-> secret_name, keys_and_values |-> keys_and_values],
             create_secret(store, fault, namespace, group, secret_name,
                           keys_and_values))

Update ==
    \E fault \in {"none", "namespace_exists", "secret_exists", "update_secret"},
       namespace \in Namespaces, group \in Groups,
       secret_name \in SecretNames, keys_and_values \in KeysAndValues :
        Ends([fn |-> "update_secret", namespace |-> namespace, group |-> group,
              secret_name |-> secret_name, keys_and_values |-> keys_and_values],
             update_secret(store, fault, namespace, group, secret_name,
                           keys_and_values))

Delete ==
    \E fault \in {"none", "namespace_exists", "secret_exists", "delete_secret"},
       namespace \in Namespaces, group \in Groups,
       secret_name \in SecretNames :
        Ends([fn |-> "delete_secret", namespace |-> namespace, group |-> group,
              secret_name |-> secret_name, keys_and_values |-> <<>>],
             delete_secret(store, fault, namespace, group, secret_name))

Display ==
    \E fault \in {"none", "namespace_exists", "list_secrets"},
       namespace \in Namespaces, group \in Groups \cup {None},
       secret_name \in SecretNames \cup {None} :
        Ends([fn |-> "display_secrets", namespace |-> namespace, group |-> group,
              secret_name |-> secret_name, keys_and_values |-> <<>>],
             display_secrets(store, fault, namespace, group, secret_name))

\* The command is over: its console output and its calls are history, the
\* cluster stays as the command left it.  A command that returned after a
\* create, update or delete call is remembered as the one before the next.
Mutating == {"create_secret", "update_secret", "delete_secret"}
Exit ==
    /\ op # NoOp
    /\ result # NoResult
    /\ op' = NoOp
    /\ pre' = store
    /\ trace' = <<>>
    /\ result' = NoResult
    /\ prev' = IF /\ result.status = "returned"
                  /\ \E i \in 1..Len(trace) :
                        trace[i].ev = "call" /\ trace[i].what \in Mutating
               THEN op ELSE NoOp
    /\ found' = EmptyStore({})
    /\ UNCHANGED <<store, parseVars>>

Next == Create \/ Update \/ Delete \/ Display \/ Exit

Spec == Init /\ [][Next]_vars

----------------------------------------------------------------------------
(* The parser state machine: either parser function, called on any input *)

InitParse ==
    /\ store = EmptyStore({})
    /\ op = NoOp
    /\ pre = store
    /\ trace = <<>>
    /\ result = NoResult
    /\ prev = NoOp
    /\ found = EmptyStore({})
    /\ \/ \E kv_string \in RawStrings :
             kv_call = [fn |-> "_parse_secret_key_value_pair", arg |-> kv_string]
       \/ \E n \in 0..MaxPairs : \E strings \in [1..n -> RawStrings] :
             kv_call = [fn |-> "parse_cli_secrets_strings", arg |-> strings]
    /\ kv_result = NoResult

ParsePair ==
    /\ kv_call.fn = "_parse_secret_key_value_pair"
    /\ kv_result = NoResult
    /\ kv_result' = _parse_secret_key_value_pair(kv_call.arg)
    /\ UNCHANGED <<storeVars, kv_call>>

ParseStrings ==
    /\ kv_call.fn = "parse_cli_secrets_strings"
    /\ kv_result = NoResult
    /\ kv_result' = parse_cli_secrets_strings(kv_call.arg)
    /\ UNCHANGED <<storeVars, kv_call>>

NextParse == ParsePair \/ ParseStrings

SpecParse == InitParse /\ [][NextParse]_vars

----------------------------------------------------------------------------
(* update_secret and delete_secret beside another actor: the command makes *)
(* its queries, the other actor may delete the secret the command is       *)
(* about, the command makes its mutating call                              *)

InProgress == op # NoOp /\ result = NoResult

UpdateCheck ==
    \E fault \in {"none", "namespace_exists", "secret_exists"},
       namespace \in Namespaces, group \in Groups,
       secret_name \in SecretNames, keys_and_values \in KeysAndValues :
        Ends([fn |-> "update_secret", namespace |-> namespace, group |-> group,
              secret_name |-> secret_name, keys_and_values |-> keys_and_values],
             update_secret_check(store, fault, namespace, group, secret_name))

DeleteCheck ==
    \E fault \in {"none", "namespace_exists", "secret_exists"},
       namespace \in Namespaces, group \in Groups,
       secret_name \in SecretNames :
        Ends([fn |-> "delete_secret", namespace |-> namespace, group |-> group,
              secret_name |-> secret_name, keys_and_values |-> <<>>],
             delete_secret_check(store, fault, namespace, group, secret_name))

Acts(r) ==
    /\ found' = store
    /\ store' = r.store
    /\ trace' = r.trace
    /\ result' = r.result
    /\ UNCHANGED <<op, pre, prev, parseVars>>

UpdateAct ==
    /\ InProgress /\ op.fn = "update_secret"
    /\ \E fault \in {"none", "update_secret"} :
          Acts(update_secret_act(store, fault, trace, op.namespace, op.group,
                                 op.secret_name, op.keys_and_values))

DeleteAct ==
    /\ InProgress /\ op.fn = "delete_secret"
    /\ \E fault \in {"none", "delete_secret"} :
          Acts(delete_secret_act(store, fault, trace, op.namespace, op.group,
                                 op.secret_name))

\* Another actor deletes the secret the command has just found to exist.
OtherActorDeletes ==
    /\ InProgress
    /\ <<op.namespace, _create_complete_secret_name(op.group, op.secret_name)>>
          \in DOMAIN store.secrets
    /\ store' = k8s_delete_secret(
                    store, "none", op.namespace,
                    _create_complete_secret_name(op.group, op.secret_name)).store
    /\ UNCHANGED <<op, pre, trace, result, prev, found, parseVars>>

NextRace ==
    \/ Create \/ UpdateCheck \/ UpdateAct \/ DeleteCheck \/ DeleteAct
    \/ OtherActorDeletes \/ Exit

SpecRace == Init /\ [][NextRace]_vars

----------------------------------------------------------------------------
(* What the last command did, read off its trace *)

Calls(fn) == SelectSeq(trace, LAMBDA e : e.ev = "call" /\ e.what = fn)
Called(fn) == Len(Calls(fn)) > 0
Prints == SelectSeq(trace, LAMBDA e : e.ev = "print")
Printed(msg) == \E i \in 1..Len(trace) : trace[i].ev = "print" /\ trace[i].what = msg
StoreFailed == \E i \in 1..Len(trace) : trace[i].ev = "call" /\ trace[i].error # NoError
Returned == result.status = "returned"
NamespaceKnown == op.namespace \in pre.namespaces
\* The identifier group-name of the command's group and secret name, each
\* written as the f-string writes it (None as the text None).
Identifier == Format(op.group) \o <<"-">> \o Format(op.secret_name)
SecretKnown == <<op.namespace, Identifier>> \in DOMAIN pre.secrets

----------------------------------------------------------------------------
(* Claims *)

\* C1: create_secret for a namespace the store does not hold never calls
\* k8s.create_secret and leaves the store as it was; when the store answers
\* the namespace query, it prints the namespace-not-found message, and only
\* that, and returns normally.
C1_CreateInMissingNamespace ==
    (op.fn = "create_secret" /\ ~NamespaceKnown) =>
        /\ ~Called("create_secret")
        /\ store = pre
        /\ ~StoreFailed =>
              /\ Returned
              /\ Prints = <<PrintEv("namespace_not_found", <<op.namespace>>)>>

C1_Witness ==
    /\ op.fn = "create_secret" /\ ~NamespaceKnown
    /\ pre.namespaces # {}
    /\ Returned /\ Printed("namespace_not_found")

\* C2: update_secret and delete_secret for an existing namespace and an
\* identifier group-name that is not in it issue no update_secret and no
\* delete_secret call and leave the store as it was; when the store answers
\* the two existence queries, they print the secret-not-found message, and
\* only that, and return normally.
C2_MissingSecretNotMutated ==
    (op.fn \in {"update_secret", "delete_secret"} /\ NamespaceKnown /\ ~SecretKnown) =>
        /\ \A fn \in Mutating : ~Called(fn)
        /\ store = pre
        /\ ~StoreFailed =>
              /\ Returned
              /\ Prints = <<PrintEv("secret_not_found", <<op.secret_name, op.group>>)>>

C2_Witness ==
    /\ op.fn = "update_secret" /\ NamespaceKnown /\ ~SecretKnown
    /\ pre.secrets # <<>>
    /\ Returned /\ Printed("secret_not_found")

\* C3: create_secret for an existing namespace (the store having answered the
\* namespace query) calls k8s.create_secret exactly once, with the namespace,
\* the identifier group + "-" + name, the group and the given mapping; the
\* created confirmation is printed exactly when that call returned, and after
\* it.
C3_CreateCallsStoreOnce ==
    (op.fn = "create_secret" /\ NamespaceKnown /\ trace[1].error = NoError) =>
        LET created == PrintEv("created", <<op.secret_name, op.group>>)
        IN  /\ Len(Calls("create_secret")) = 1
            /\ trace[2].ev = "call" /\ trace[2].what = "create_secret"
            /\ trace[2].args = <<op.namespace, Identifier, op.group, op.keys_and_values>>
            /\ trace[2].error = NoError => (Returned /\ Len(trace) = 3 /\ trace[3] = created)
            /\ trace[2].error # NoError => (~Returned /\ Prints = <<>>)

C3_Witness ==
    /\ op.fn = "create_secret" /\ NamespaceKnown /\ Returned
    /\ op.group = <<"g", "-", "h">> /\ op.secret_name = <<"n">>
    /\ Printed("created")
    /\ <<op.namespace, <<"g", "-", "h", "-", "n">>>> \in DOMAIN store.secrets

\* The text "-> K=V" of a pair of a mapping, as formatted and with its
\* newline characters deleted.
PairText(kv) == <<"-", ">", " ">> \o kv[1] \o <<"=">> \o kv[2]
WithoutNewlines(s) == SelectSeq(s, LAMBDA c : c # "\n")
HasNewline(s) == \E i \in 1..Len(s) : s[i] = "\n"
PrintedLine(text) ==
    \E i \in 1..Len(trace) : trace[i] = PrintEv("key_value", <<text>>)

\* This command addresses the namespace, group and name of the one before it.
SameTarget ==
    /\ prev.namespace = op.namespace
    /\ prev.group = op.group
    /\ prev.secret_name = op.secret_name
FindsCreated ==
    (prev.fn = "create_secret" /\ SameTarget /\ ~StoreFailed
        /\ op.fn \in {"update_secret", "delete_secret"}) =>
            (Called(op.fn) /\ ~Printed("secret_not_found") /\ Returned)

\* C4 as stated: after create_secret(g, n, m) has succeeded, display_secrets
\* for the same namespace, group g and name n prints the line K=V of every
\* pair of m, exactly as the pair is; update_secret and delete_secret for g
\* and n find the secret.
C4_RoundTripVerbatim ==
    /\ (prev.fn = "create_secret" /\ SameTarget /\ ~StoreFailed
          /\ op.fn = "display_secrets") =>
            /\ Returned
            /\ \A i \in 1..Len(prev.keys_and_values) :
                  PrintedLine(PairText(prev.keys_and_values[i]))
    /\ FindsCreated

\* C4 amended: after create_secret(g, n, m) has succeeded, display_secrets for
\* the same namespace, group g and name n finds the secret under the
\* identifier g-n and prints, for every pair of m, the line K=V with the
\* newline characters of K and V removed; update_secret and delete_secret for
\* g and n find the secret.
C4_RoundTrip ==
    /\ (prev.fn = "create_secret" /\ SameTarget /\ ~StoreFailed
          /\ op.fn = "display_secrets") =>
            /\ Returned
            /\ ~Printed("cannot_find_secret")
            /\ \A i \in 1..Len(prev.keys_and_values) :
                  PrintedLine(WithoutNewlines(PairText(prev.keys_and_values[i])))
    /\ FindsCreated

C4_Witness ==
    /\ prev.fn = "create_secret" /\ SameTarget /\ ~StoreFailed
    /\ op.fn = "display_secrets" /\ Returned
    /\ op.group = <<"g">> /\ op.secret_name = <<"h", "-", "n">>
    /\ \E i \in 1..Len(prev.keys_and_values) :
          /\ HasNewline(prev.keys_and_values[i][2])
          /\ PrintedLine(WithoutNewlines(PairText(prev.keys_and_values[i])))

\* C5 as stated: display_secrets in an existing namespace with a secret name
\* supplied (anything but None, the empty string included) and no group
\* prints the guidance message, and only that, returns normally and never
\* calls k8s.list_secrets.
C5_NameWithoutGroup ==
    (op.fn = "display_secrets" /\ NamespaceKnown /\ trace[1].error = NoError
        /\ op.secret_name # None /\ op.group = None) =>
            /\ Returned
            /\ Prints = <<PrintEv("specify_group", <<>>)>>
            /\ ~Called("list_secrets")

\* The four not-found conditions, as the store stood when the command began.
Guidance == {"namespace_not_found", "secret_not_found", "specify_group",
             "cannot_find_secret"}
Listed ==
    /\ <<op.namespace, _create_complete_secret_name(op.group, op.secret_name)>>
          \in DOMAIN pre.secrets
    /\ op.group # None =>
          pre.secrets[<<op.namespace,
                        _create_complete_secret_name(op.group, op.secret_name)>>].group
              = op.group
NotFound ==
    \/ op.fn # "none" /\ ~NamespaceKnown
    \/ op.fn \in {"update_secret", "delete_secret"} /\ NamespaceKnown /\ ~SecretKnown
    \/ op.fn = "display_secrets" /\ NamespaceKnown /\ op.secret_name # None
          /\ ((Truthy(op.secret_name) /\ op.group = None) \/ ~Listed)

\* C6: in a not-found condition (namespace missing, secret missing, requested
\* secret absent from the listing, name given without group), with the store
\* answering every query, every operation returns normally: no exception
\* escapes, the last thing printed is a guidance message, nothing but
\* guidance and the header is printed, and the store is not touched.
C6_NotFoundReturnsNormally ==
    (NotFound /\ ~StoreFailed) =>
        /\ Returned
        /\ Prints # <<>>
        /\ Prints[Len(Prints)].what \in Guidance
        /\ \A i \in 1..Len(Prints) : Prints[i].what \in Guidance \cup {"header"}
        /\ \A fn \in Mutating : ~Called(fn)
        /\ store = pre

C6_Witness ==
    /\ op.fn = "display_secrets" /\ NamespaceKnown /\ ~StoreFailed
    /\ op.secret_name = <<"n">> /\ op.group = <<"g", "-", "h">>
    /\ ~Listed /\ pre.secrets # <<>>
    /\ Returned /\ Printed("cannot_find_secret")

----------------------------------------------------------------------------
(* Claims about the parser, under SpecParse *)

\* The 1-based position of the first equals sign of s (0 when it has none),
\* and the two parts of s around it.
FirstEquals(s) ==
    IF \A i \in 1..Len(s) : s[i] # "=" THEN 0
    ELSE CHOOSE i \in 1..Len(s) : s[i] = "=" /\ \A j \in 1..(i - 1) : s[j] # "="
Before(s) == [i \in 1..(FirstEquals(s) - 1) |-> s[i]]
After(s) == [i \in 1..(Len(s) - FirstEquals(s)) |-> s[FirstEquals(s) + i]]
Malformed(s) == FirstEquals(s) = 0 \/ Before(s) = <<>> \/ After(s) = <<>>

\* C7: _parse_secret_key_value_pair raises ValueError exactly when its
\* argument has no equals sign, or nothing before the first one, or nothing
\* after the first one; otherwise it returns the part before the first equals
\* sign and the whole part after it, further equals signs included.
C7_ParsePair ==
    (kv_call.fn = "_parse_secret_key_value_pair" /\ kv_result # NoResult) =>
        /\ kv_result.raised <=> Malformed(kv_call.arg)
        /\ kv_result.raised => kv_result.error = ValueError
        /\ ~kv_result.raised =>
              /\ kv_result.error = NoError
              /\ kv_result.key = Before(kv_call.arg)
              /\ kv_result.value = After(kv_call.arg)
              /\ kv_result.key \o <<"=">> \o kv_result.value = kv_call.arg

C7_Witness ==
    /\ kv_call = [fn |-> "_parse_secret_key_value_pair", arg |-> <<"a", "=", "=">>]
    /\ kv_result = Parsed(<<"a">>, <<"=">>)

\* C8: parse_cli_secrets_strings over well-formed strings returns (raises
\* nothing) a mapping with unique keys whose key set is exactly the set of the
\* strings' keys, each key mapped to the value of the last string that
\* carries it.
C8_LastWriteWins ==
    (/\ kv_call.fn = "parse_cli_secrets_strings" /\ kv_result # NoResult
     /\ \A i \in 1..Len(kv_call.arg) : ~Malformed(kv_call.arg[i])) =>
        LET strings == kv_call.arg
            d == kv_result.value
        IN  /\ ~kv_result.raised
            /\ \A i, j \in 1..Len(d) : d[i][1] = d[j][1] => i = j
            /\ {d[i][1] : i \in 1..Len(d)} = {Before(strings[i]) : i \in 1..Len(strings)}
            /\ \A i \in 1..Len(strings) :
                  (\A j \in (i + 1)..Len(strings) : Before(strings[j]) # Before(strings[i]))
                      => <<Before(strings[i]), After(strings[i])>>
                            \in {d[k] : k \in 1..Len(d)}

C8_Witness ==
    /\ kv_call = [fn |-> "parse_cli_secrets_strings",
                  arg |-> << <<"a", "=", "b">>, <<"a", "=", "=">> >>]
    /\ kv_result # NoResult
    /\ ~kv_result.raised
    /\ kv_result.value = << <<<<"a">>, <<"=">>>> >>

----------------------------------------------------------------------------
(* Claims about store errors and rendering, under Spec *)

\* C9: an error raised by a store call ends the operation there and then: it
\* is the last thing the operation does, the operation raises that very
\* error, and no created, updated or deleted confirmation is printed.
C9_StoreErrorsPropagate ==
    \A i \in 1..Len(trace) :
        (trace[i].ev = "call" /\ trace[i].error # NoError) =>
            /\ i = Len(trace)
            /\ result = [status |-> "raised", error |-> trace[i].error]
            /\ ~Printed("created") /\ ~Printed("updated") /\ ~Printed("deleted")

C9_Witness ==
    /\ op.fn = "update_secret" /\ SecretKnown
    /\ Len(trace) = 3 /\ trace[3].what = "update_secret"
    /\ trace[3].error = StoreError("update_secret")
    /\ result = [status |-> "raised", error |-> StoreError("update_secret")]
    /\ store = pre

\* C10: every key/value line display_secrets prints, for one secret or for
\* all, holds no newline character and is the text key=value of a pair of a
\* secret of the namespace with the newline characters removed.
C10_KeyValueLinesHaveNoNewline ==
    \A i \in 1..Len(trace) :
        (trace[i].ev = "print" /\ trace[i].what = "key_value") =>
            /\ ~HasNewline(trace[i].args[1])
            /\ \E k \in DOMAIN pre.secrets :
                  /\ k[1] = op.namespace
                  /\ \E j \in 1..Len(pre.secrets[k].data) :
                        trace[i].args[1]
                            = WithoutNewlines(PairText(pre.secrets[k].data[j]))

C10_Witness ==
    /\ op.fn = "display_secrets" /\ op.secret_name = None /\ Returned
    /\ Len(Calls("list_secrets")) = 1 /\ Printed("header")
    /\ \E k \in DOMAIN pre.secrets :
          \E j \in 1..Len(pre.secrets[k].data) :
              /\ HasNewline(pre.secrets[k].data[j][2])
              /\ PrintedLine(WithoutNewlines(PairText(pre.secrets[k].data[j])))

----------------------------------------------------------------------------
(* Claims about the order of the checks and about what is displayed *)

\* C12: in every operation k8s.namespace_exists is the first store call; in
\* update_secret and delete_secret k8s.secret_exists is the second call and
\* is made only after namespace_exists answered true; when the namespace is
\* absent no store call follows the first, the secret-not-found message is
\* never printed and, the store having answered, the namespace-not-found
\* message is the only thing printed.
C12_ChecksInOrder ==
    (op.fn # "none") =>
        /\ trace[1].ev = "call" /\ trace[1].what = "namespace_exists"
        /\ trace[1].args = <<op.namespace>>
        /\ \A i \in 1..Len(trace) :
              (trace[i].ev = "call" /\ trace[i].what = "secret_exists") =>
                  /\ i = 2
                  /\ trace[1].error = NoError
                  /\ NamespaceKnown
        /\ ~NamespaceKnown =>
              /\ \A i \in 2..Len(trace) : trace[i].ev # "call"
              /\ ~Printed("secret_not_found")
              /\ ~StoreFailed =>
                    Prints = <<PrintEv("namespace_not_found", <<op.namespace>>)>>

C12_Witness ==
    /\ op.fn = "delete_secret" /\ ~NamespaceKnown /\ pre.namespaces # {}
    /\ Len(trace) = 2 /\ trace[1].what = "namespace_exists"
    /\ trace[2] = PrintEv("namespace_not_found", <<op.namespace>>)

\* C14: parse_cli_secrets_strings over strings of which at least one is
\* malformed raises the very error _parse_secret_key_value_pair raises for the
\* first malformed string, returns no mapping, and has parsed the strings up
\* to that one and none after it.
FirstMalformed(strings) ==
    CHOOSE i \in 1..Len(strings) :
        Malformed(strings[i]) /\ \A j \in 1..(i - 1) : ~Malformed(strings[j])
C14_FailFast ==
    (/\ kv_call.fn = "parse_cli_secrets_strings" /\ kv_result # NoResult
     /\ \E i \in 1..Len(kv_call.arg) : Malformed(kv_call.arg[i])) =>
        /\ kv_result.raised
        /\ kv_result.error
              = _parse_secret_key_value_pair(
                    kv_call.arg[FirstMalformed(kv_call.arg)]).error
        /\ kv_result.error = ValueError
        /\ kv_result.value = <<>>
        /\ kv_result.consumed = FirstMalformed(kv_call.arg)

C14_Witness ==
    /\ kv_call = [fn |-> "parse_cli_secrets_strings",
                  arg |-> << <<"=", "a">>, <<"a", "=", "b">> >>]
    /\ kv_result # NoResult
    /\ kv_result.raised /\ kv_result.consumed = 1

\* The secrets k8s.list_secrets returns for the command's namespace and group,
\* and the prints of one of them: its identifier, then its pairs.
ListedKeys ==
    {k \in DOMAIN pre.secrets :
        k[1] = op.namespace /\ (op.group = None \/ pre.secrets[k].group = op.group)}
Lines(k) ==
    [j \in 1..Len(pre.secrets[k].data) |->
        PrintEv("key_value", <<WithoutNewlines(PairText(pre.secrets[k].data[j]))>>)]
BlockAt(k, i) ==
    /\ i + Len(Lines(k)) <= Len(Prints)
    /\ Prints[i] = PrintEv("header", <<k[2]>>)
    /\ \A j \in 1..Len(Lines(k)) : Prints[i + j] = Lines(k)[j]

\* C15: in an existing namespace, the store having answered: with a name and
\* a group given and the identifier group-name in the listing, display_secrets
\* prints the header and that secret's pairs, in order, and nothing else; with
\* no name given it prints, for every secret of the listing, the identifier
\* followed by all of its pairs, and nothing else.
C15_DisplaySelection ==
    (op.fn = "display_secrets" /\ NamespaceKnown /\ ~StoreFailed) =>
        /\ (op.secret_name # None /\ op.group # None
               /\ <<op.namespace, Identifier>> \in ListedKeys) =>
                 Prints = <<PrintEv("header", <<op.secret_name>>)>>
                              \o Lines(<<op.namespace, Identifier>>)
        /\ op.secret_name = None =>
              /\ \A k \in ListedKeys : \E i \in 1..Len(Prints) : BlockAt(k, i)
              /\ \A p \in 1..Len(Prints) :
                    \E k \in ListedKeys : \E i \in 1..p :
                        BlockAt(k, i) /\ p <= i + Len(Lines(k))
              /\ Cardinality({p \in 1..Len(Prints) : Prints[p].what = "header"})
                    = Cardinality(ListedKeys)

C15_Witness ==
    /\ op.fn = "display_secrets" /\ NamespaceKnown /\ ~StoreFailed
    /\ op.secret_name = <<"n">> /\ op.group = <<"g">>
    /\ <<op.namespace, Identifier>> \in ListedKeys
    /\ Cardinality(ListedKeys) > 1
    /\ Prints = <<PrintEv("header", <<op.secret_name>>)>>
                     \o Lines(<<op.namespace, Identifier>>)

\* C16: existence is asked of the store every time.  After delete_secret(g, n)
\* has succeeded, the next command, update_secret or delete_secret for the
\* same namespace, g and n, queries k8s.secret_exists and, the two queries
\* answered, prints the secret-not-found message and issues no mutating call;
\* after
\* create_secret(g, n, m) has succeeded, the next command update_secret for g
\* and n queries k8s.secret_exists, calls k8s.update_secret and reports the
\* update.
QueryFailed ==
    \E i \in 1..Len(trace) :
        /\ trace[i].ev = "call" /\ trace[i].error # NoError
        /\ trace[i].what \in {"namespace_exists", "secret_exists"}
C16_ExistenceRequeried ==
    SameTarget =>
        /\ (prev.fn = "delete_secret" /\ ~QueryFailed
               /\ op.fn \in {"update_secret", "delete_secret"}) =>
              /\ Len(Calls("secret_exists")) = 1
              /\ Returned
              /\ Prints = <<PrintEv("secret_not_found", <<op.secret_name, op.group>>)>>
              /\ \A fn \in Mutating : ~Called(fn)
              /\ store = pre
        /\ (prev.fn = "create_secret" /\ ~StoreFailed /\ op.fn = "update_secret") =>
              /\ Len(Calls("secret_exists")) = 1
              /\ Len(Calls("update_secret")) = 1
              /\ Returned
              /\ Prints = <<PrintEv("updated", <<op.secret_name, op.group>>)>>
              /\ store.secrets[<<op.namespace, Identifier>>].data = op.keys_and_values

C16_Witness ==
    /\ prev.fn = "delete_secret" /\ SameTarget /\ ~StoreFailed
    /\ op.fn = "delete_secret" /\ Returned
    /\ Printed("secret_not_found")
    /\ pre.secrets # <<>>

----------------------------------------------------------------------------
(* Claims about the composed identifier and about the window between the   *)
(* existence check and the mutating call                                   *)

\* The identifier the command before this one composed.
PrevIdentifier == _create_complete_secret_name(prev.group, prev.secret_name)

\* C13 as stated: two distinct (group, name) pairs compose distinct
\* identifiers, so after create_secret(g2, n2, m) has succeeded, update_secret
\* or delete_secret for the same namespace and a different pair (g1, n1)
\* leaves the secret created under (g2, n2) in the store as it was, whatever
\* the groups and names, those holding "-" included.
C13_PairsNeverCollide ==
    (/\ prev.fn = "create_secret"
     /\ op.fn \in {"update_secret", "delete_secret"}
     /\ prev.namespace = op.namespace
     /\ <<prev.group, prev.secret_name>> # <<op.group, op.secret_name>>) =>
        /\ PrevIdentifier # Identifier
        /\ <<op.namespace, PrevIdentifier>> \in DOMAIN store.secrets
        /\ store.secrets[<<op.namespace, PrevIdentifier>>]
              = pre.secrets[<<op.namespace, PrevIdentifier>>]

\* C11: the existence check and the mutating call are two steps with nothing
\* to hold the store between them: once k8s.secret_exists has answered true,
\* update_secret calls k8s.update_secret and delete_secret calls
\* k8s.delete_secret for the identifier, with no further query, also when
\* another actor has deleted the secret in between; the call then fails in
\* the store and its error ends the command with no message printed.
C11_WindowNotClosed ==
    (/\ op.fn \in {"update_secret", "delete_secret"} /\ result # NoResult
     /\ NamespaceKnown /\ SecretKnown /\ ~QueryFailed) =>
        /\ Len(Calls("namespace_exists")) = 1 /\ Len(Calls("secret_exists")) = 1
        /\ Len(Calls(op.fn)) = 1
        /\ Calls(op.fn)[1].args[2] = Identifier
        /\ <<op.namespace, Identifier>> \notin DOMAIN found.secrets =>
              /\ Calls(op.fn)[1].error = StoreError(op.fn)
              /\ result = [status |-> "raised", error |-> StoreError(op.fn)]
              /\ Prints = <<>>
              /\ store = found

C11_Witness ==
    /\ op.fn = "update_secret" /\ result # NoResult
    /\ NamespaceKnown /\ SecretKnown /\ ~QueryFailed
    /\ Called("update_secret")
    /\ <<op.namespace, Identifier>> \notin DOMAIN found.secrets
    /\ found.secrets # <<>>

====
